---- MODULE Spec2Model ----
(***************************************************************************)
(* A model of example/assets/getfields.py: one run of main(), which calls  *)
(* get_form_field_positions(pdf_path) and writes the returned list as JSON. *)
(*                                                                         *)
(* Python values are tagged records, so that None, strings, numbers, lists *)
(* and dicts stay distinct and comparable:                                 *)
(*   None            [none |-> TRUE]                                       *)
(*   a str           [str |-> <<"/", "T", "x">>]  (a sequence of chars)    *)
(*   a float         [num |-> n]   n counts thirds of 0.001 pt, so that    *)
(*                   round(x, 3) is the nearest multiple of 3 and no tie   *)
(*                   between two neighbours arises                         *)
(*   an int          [int |-> i]                                           *)
(*   a list          [list |-> <<...>>]                                    *)
(*   a dict          a record of its keys; a key the dict lacks is held    *)
(*                   as None, which is what dict.get answers for it        *)
(* Differences of floats are taken as exact.                               *)
(***************************************************************************)
EXTENDS Integers, Sequences, FiniteSets, TLC

VARIABLES
    pc,                 \* position of the run inside main / get_form_field_positions
    field_definitions,  \* line 101: normalised name -> field data
    page_index,         \* line 114: 1-based index of the page being walked (0: none yet)
    page_metrics,       \* line 112: page index -> {width, height}
    widgets_by_field,   \* line 109: name -> list of widgets
    field_types,        \* line 110: name -> normalised field-type code
    todo,               \* line 178: the sorted names not yet reported
    results,            \* line 175: the records built so far
    fields,             \* line 247: what get_form_field_positions returned to main
    outcome,            \* how the call ended: "running", "ok", "empty_document",
                        \*   "not_found", "parse_failure"
    output,             \* the output JSON file: "untouched", or what the write left
    document,           \* the annotations read so far, in reading order, each with
                        \*   its page: the part of the input PDF already consumed
    discarded           \* what the except clause threw away: widgets and records

vars == <<pc, field_definitions, page_index, page_metrics, widgets_by_field,
          field_types, todo, results, fields, outcome, output, document, discarded>>

----------------------------------------------------------------------------
(* Bounds of the model. *)

MaxPages == 2
MaxAnnots == 2

----------------------------------------------------------------------------
(* Python values. *)

None == [none |-> TRUE]
Str(s) == [str |-> s]
Num(n) == [num |-> n]
PyInt(i) == [int |-> i]
List(s) == [list |-> s]

IsStr(v) == "str" \in DOMAIN v
IsNum(v) == "num" \in DOMAIN v
IsList(v) == "list" \in DOMAIN v

\* Python truthiness, as `or`, `not` and `if` apply it.
Truthy(v) ==
    IF v = None THEN FALSE
    ELSE IF IsStr(v) THEN v.str # <<>>
    ELSE IF IsList(v) THEN v.list # <<>>
    ELSE IF IsNum(v) THEN v.num # 0
    ELSE TRUE

\* a or b
Or(a, b) == IF Truthy(a) THEN a ELSE b

\* A length of n points in the model's unit.
Pt(n) == 3000 * n

----------------------------------------------------------------------------
(* Lines 9-15. *)

FIELD_TYPE_MAP ==
    [code \in {<<"T", "x">>, <<"S", "i", "g">>, <<"B", "t", "n">>,
               <<"C", "h">>, <<"R", "d">>} |->
        CASE code = <<"T", "x">> -> <<"t", "e", "x", "t">>
          [] code = <<"S", "i", "g">> -> <<"s", "i", "g", "n", "a", "t", "u", "r", "e">>
          [] code = <<"B", "t", "n">> -> <<"c", "h", "e", "c", "k">>
          [] code = <<"C", "h">> -> <<"c", "h", "o", "i", "c", "e">>
          [] code = <<"R", "d">> -> <<"r", "a", "d", "i", "o">>]

\* Line 188: FIELD_TYPE_MAP.get(field_type, field_type)
MappedType(field_type) ==
    IF IsStr(field_type) /\ field_type.str \in DOMAIN FIELD_TYPE_MAP
    THEN Str(FIELD_TYPE_MAP[field_type.str])
    ELSE field_type

\* Lines 17-21: float(value), None for what float() rejects.
_as_float(value) == IF IsNum(value) THEN value ELSE None

\* Lines 23-27.
_normalise_name(value) ==
    IF value = None THEN None
    ELSE IF value.str # <<>> /\ Head(value.str) = "/" THEN Str(Tail(value.str))
    ELSE value

\* Lines 29-32: round(float(value), 3).
_format_number(value) ==
    IF value = None THEN None ELSE Num(3 * ((value.num + 1) \div 3))

Point(x, y) == [x |-> x, y |-> y]
Size(w, h) == [width |-> w, height |-> h]

\* Lines 34-65.
_resolve_rect(rect) ==
    IF ~Truthy(rect) \/ Len(rect.list) # 4
    THEN [top_left |-> Point(None, None), top_right |-> Point(None, None),
          bottom_left |-> Point(None, None), bottom_right |-> Point(None, None),
          width |-> None, height |-> None]
    ELSE LET left == _as_float(rect.list[1])
             bottom == _as_float(rect.list[2])
             right == _as_float(rect.list[3])
             top == _as_float(rect.list[4])
         IN [top_left |-> Point(left, top), top_right |-> Point(right, top),
             bottom_left |-> Point(left, bottom), bottom_right |-> Point(right, bottom),
             width |-> IF right # None /\ left # None
                       THEN Num(right.num - left.num) ELSE None,
             height |-> IF top # None /\ bottom # None
                        THEN Num(top.num - bottom.num) ELSE None]

\* Lines 72-75.
_round_point(point) ==
    IF point = None THEN None
    ELSE Point(_format_number(point.x), _format_number(point.y))

\* Lines 77-80.
_round_size(size) ==
    IF size = None THEN None
    ELSE Size(_format_number(size.width), _format_number(size.height))

\* Lines 82-92.
_round_box_dict(box) ==
    IF box = None THEN None
    ELSE [top_left |-> Point(_format_number(box.top_left.x), _format_number(box.top_left.y)),
          top_right |-> Point(_format_number(box.top_right.x), _format_number(box.top_right.y)),
          bottom_left |-> Point(_format_number(box.bottom_left.x), _format_number(box.bottom_left.y)),
          bottom_right |-> Point(_format_number(box.bottom_right.x), _format_number(box.bottom_right.y)),
          width |-> _format_number(box.width),
          height |-> _format_number(box.height)]

----------------------------------------------------------------------------
(* Dicts keyed by a name's characters. *)

EmptyDict == <<>>
Get(d, k, default) == IF k \in DOMAIN d THEN d[k] ELSE default
Put(d, k, v) == (k :> v) @@ d

\* Code points of the characters names are drawn from (str comparison is by
\* code point).
Ord(c) ==
    CASE c = "/" -> 47
      [] c = "a" -> 97
      [] c = "b" -> 98
      [] c = "c" -> 99

\* s < t on str.
RECURSIVE StrLess(_, _)
StrLess(s, t) ==
    IF t = <<>> THEN FALSE
    ELSE IF s = <<>> THEN TRUE
    ELSE IF Head(s) = Head(t) THEN StrLess(Tail(s), Tail(t))
    ELSE Ord(Head(s)) < Ord(Head(t))

\* Line 178: sorted(all_field_names).
RECURSIVE Sorted(_)
Sorted(S) ==
    IF S = {} THEN <<>>
    ELSE LET least == CHOOSE m \in S : \A x \in S \ {m} : StrLess(m, x)
         IN <<least>> \o Sorted(S \ {least})

\* Line 176.
AllFieldNames_WidgetsOnly(definitions, widgets) == DOMAIN widgets

AllFieldNames(definitions, widgets) == DOMAIN definitions \cup DOMAIN widgets

\* Lines 100-103: raw_fields is None or the dict reader.get_fields() answers,
\* held as its (name, data) items in the dict's order; a later item overwrites
\* an earlier one of the same normalised name.
RECURSIVE BuildDefinitions(_, _)
BuildDefinitions(items, acc) ==
    IF items = <<>> THEN acc
    ELSE LET name == _normalise_name(Head(items)[1])
         IN BuildDefinitions(Tail(items),
                IF Truthy(name) THEN Put(acc, name.str, Head(items)[2]) ELSE acc)

FieldDefinitions(raw_fields) ==
    BuildDefinitions(IF raw_fields = None THEN <<>> ELSE raw_fields.items, EmptyDict)

----------------------------------------------------------------------------
(* One annotation, lines 124-170.  An annotation is [T, Rect, FT, Parent];   *)
(* Parent is None or the parent dict [T, Rect, FT], which, holding its kids, *)
(* is never an empty dict.                                                   *)

\* Line 129.
NameObj(annotation) ==
    LET parent == annotation.Parent
    IN Or(annotation.T, IF parent # None THEN parent.T ELSE None)

\* Line 130.
FieldName(annotation) == _normalise_name(NameObj(annotation))

\* Lines 131-132.
Skipped(annotation) == FieldName(annotation) = None

\* Line 134.
EffectiveRect(annotation) ==
    LET parent == annotation.Parent
    IN Or(annotation.Rect, IF parent # None THEN parent.Rect ELSE None)

\* Lines 142-144.
ResolveFieldType(annotation, definitions) ==
    LET parent == annotation.Parent
        field_name == FieldName(annotation).str
    IN _normalise_name(
           Or((IF parent # None THEN parent ELSE annotation).FT,
              Get(definitions, field_name, [FT |-> None]).FT))

\* Lines 156-160.
FlutterY_NullAsZero(top_left, page_height) ==
    _format_number(Num((IF page_height # None THEN page_height.num ELSE 0)
                     - (IF top_left.y # None THEN top_left.y.num ELSE 0)))

FlutterY(top_left, page_height) ==
    IF top_left.y # None /\ page_height # None
    THEN _format_number(Num(page_height.num - top_left.y.num))
    ELSE None

\* Line 149.
WidgetBox_Always(rect, rect_info) == rect_info

WidgetBox(rect, rect_info) == IF Truthy(rect) THEN rect_info ELSE None

\* Lines 146-169.
Widget(annotation, index, metrics) ==
    LET rect == EffectiveRect(annotation)
        rect_info == _resolve_rect(rect)
        bottom_left == rect_info.bottom_left
        top_left == rect_info.top_left
        width == rect_info.width
        height == rect_info.height
        page_height == metrics[index].height
    IN [page |-> PyInt(index),
        boundingBox |-> WidgetBox(rect, rect_info),
        position |-> IF Truthy(rect) THEN bottom_left ELSE None,
        size |-> IF Truthy(rect) THEN Size(width, height) ELSE None,
        flutterConfig |->
            IF Truthy(rect) /\ page_height # None
            THEN [pageIndex |-> PyInt(index - 1),
                  x |-> _format_number(bottom_left.x),
                  y |-> FlutterY(top_left, page_height),
                  width |-> _format_number(width),
                  height |-> _format_number(height),
                  positionUnit |-> "points",
                  sizeUnit |-> "points"]
            ELSE None]

\* Lines 179-186: the representative widget of a name.
Primary_Last(widgets) ==
    IF widgets # <<>> THEN widgets[Len(widgets)]
    ELSE [page |-> None, boundingBox |-> None, position |-> None, size |-> None]

Primary(widgets) ==
    IF widgets # <<>> THEN widgets[1]
    ELSE [page |-> None, boundingBox |-> None, position |-> None, size |-> None]

\* Lines 179-225 without the printing.
FieldRecord(field_name, definitions, widgets_map, types, metrics) ==
    LET widgets == Get(widgets_map, field_name, <<>>)
        field_type == Get(types, field_name, None)
        primary == Primary(widgets)
    IN [name |-> Str(field_name),
        field_type |-> MappedType(field_type),
        page |-> primary.page,
        page_size |-> _round_size(IF primary.page # None
                                THEN Get(metrics, primary.page.int, None)
                                ELSE None),
        bounding_box |-> _round_box_dict(primary.boundingBox),
        position |-> _round_point(primary.position),
        size |-> _round_size(primary.size)]

\* Lines 229-234: what the call answers once an exception is caught.
ExceptReturn_Partial(partial) == partial

ExceptReturn(partial) == <<>>

----------------------------------------------------------------------------
(* The inputs a run draws from.  Each specification below walks documents   *)
(* whose annotations and catalogs vary in one respect (names, rects, field  *)
(* types) and are plain in the others.                                      *)

Name(s) == Str(s)
Rect(l, b, r, t) == List(<<Num(l), Num(b), Num(r), Num(t)>>)

PlainRect == Rect(Pt(100), Pt(700), Pt(300), Pt(720))
OtherRect == Rect(Pt(50) + 1, Pt(40) + 2, Pt(90), Pt(60) + 2)
ParentRect == Rect(Pt(10), Pt(20), Pt(30), Pt(40) + 1)
ShortRect == List(<<Num(Pt(1)), Num(Pt(2)), Num(Pt(3))>>)
NoTopRect == List(<<Num(Pt(5)), Num(Pt(6)), Num(Pt(7)), None>>)
EmptyRect == List(<<>>)

\* Media boxes as (left, bottom, right, top).
Letter == <<0, 0, Pt(612), Pt(792)>>
Shifted == <<Pt(10), Pt(10) + 1, Pt(410), Pt(610)>>

NoParent == None
ParentOf(t, rect, ft) == [T |-> t, Rect |-> rect, FT |-> ft]
Annotation(t, rect, ft, parent) == [T |-> t, Rect |-> rect, FT |-> ft, Parent |-> parent]
Field(ft) == [FT |-> ft]
Fields(items) == [items |-> items]

Tx == Str(<<"/", "T", "x">>)
Btn == Str(<<"/", "B", "t", "n">>)
Ch == Str(<<"/", "C", "h">>)

\* Names: own and parent names absent, empty, the bare prefix, prefixed, plain.
NameAnnotations ==
    { Annotation(t, PlainRect, None, parent) :
        t \in {None, Name(<<>>), Name(<<"/">>), Name(<<"/", "b">>)},
        parent \in {NoParent, ParentOf(Name(<<>>), None, None),
                    ParentOf(Name(<<"a">>), None, None)} }

NameCatalogs ==
    { None,
      Fields(<< <<Name(<<"/", "a">>), Field(Tx)>>, <<Name(<<"a">>), Field(Btn)>>,
                <<Name(<<"c">>), Field(None)>> >>),
      Fields(<< <<Name(<<"c">>), Field(Tx)>>, <<Name(<<"/">>), Field(Tx)>>,
                <<Name(<<>>), Field(Btn)>>, <<Name(<<"/", "/", "a">>), Field(None)>> >>) }

NameBoxes == {Letter}

\* Geometry: the effective rect absent, of wrong arity, well-formed, lacking
\* a coordinate, empty, or taken from the parent.
GeometryAnnotations ==
    { Annotation(Name(t), rect, None, NoParent) :
        t \in {<<"a">>, <<"b">>},
        rect \in {None, ShortRect, OtherRect} }
    \cup { Annotation(Name(<<"a">>), PlainRect, None, NoParent),
           Annotation(Name(<<"a">>), NoTopRect, None, NoParent),
           Annotation(Name(<<"a">>), EmptyRect, None, ParentOf(None, EmptyRect, None)),
           Annotation(None, EmptyRect, None, ParentOf(Name(<<"b">>), ParentRect, None)) }

GeometryCatalogs == { None, Fields(<< <<Name(<<"c">>), Field(Tx)>> >>) }

GeometryBoxes == {Letter, Shifted}

\* Field types: the code on the annotation, on its parent, in the catalog.
TypeAnnotations ==
    { Annotation(Name(t), PlainRect, ft, parent) :
        t \in {<<"a">>, <<"b">>},
        ft \in {None, Tx},
        parent \in {NoParent, ParentOf(None, None, None), ParentOf(None, None, Btn)} }
    \cup { Annotation(None, PlainRect, Tx, NoParent) }

TypeCatalogs ==
    { None,
      Fields(<< <<Name(<<"a">>), Field(Ch)>>, <<Name(<<"c">>), Field(Tx)>> >>),
      Fields(<< <<Name(<<"a">>), Field(None)>>,
                <<Name(<<"c">>), Field(Str(<<"/", "F">>))>> >>) }

TypeBoxes == {Letter}

----------------------------------------------------------------------------
(* The run. *)

NoOutput == [state |-> "untouched"]
Nothing == [widgets |-> 0, records |-> 0]

Init ==
    /\ pc = "open"
    /\ field_definitions = EmptyDict
    /\ page_index = 0
    /\ page_metrics = EmptyDict
    /\ widgets_by_field = EmptyDict
    /\ field_types = EmptyDict
    /\ todo = <<>>
    /\ results = <<>>
    /\ fields = <<>>
    /\ outcome = "running"
    /\ output = NoOutput
    /\ document = <<>>
    /\ discarded = Nothing

\* The call is over: its locals are gone, main holds the answer.
Leave(answer, how) ==
    /\ fields' = answer
    /\ outcome' = how
    /\ pc' = "write"
    /\ field_definitions' = EmptyDict
    /\ page_index' = 0
    /\ page_metrics' = EmptyDict
    /\ widgets_by_field' = EmptyDict
    /\ field_types' = EmptyDict
    /\ todo' = <<>>
    /\ results' = <<>>
    /\ document' = <<>>

RECURSIVE WidgetCount(_, _)
WidgetCount(widgets_map, names) ==
    IF names = {} THEN 0
    ELSE LET n == CHOOSE n \in names : TRUE
         IN Len(widgets_map[n]) + WidgetCount(widgets_map, names \ {n})

\* Lines 229-234: an exception raised inside the try block.
Caught(how) ==
    /\ Leave(ExceptReturn(results), how)
    /\ discarded' = [widgets |-> WidgetCount(widgets_by_field, DOMAIN widgets_by_field),
                     records |-> Len(results)]
    /\ UNCHANGED output

\* Line 97: open(pdf_path, 'rb').
Open ==
    /\ pc = "open"
    /\ pc' = "get_fields"
    /\ UNCHANGED <<field_definitions, page_index, page_metrics, widgets_by_field,
                   field_types, todo, results, fields, outcome, output, document,
                   discarded>>

\* Lines 97, 229-230: the file is not there.
OpenNotFound ==
    /\ pc = "open"
    /\ Caught("not_found")

\* Lines 98-103.
GetFields(catalogs) ==
    /\ pc = "get_fields"
    /\ \E raw_fields \in catalogs :
          field_definitions' = FieldDefinitions(raw_fields)
    /\ pc' = "pages"
    /\ UNCHANGED <<page_index, page_metrics, widgets_by_field, field_types, todo,
                   results, fields, outcome, output, document, discarded>>

\* Lines 105-107: a document without pages.
NoPages ==
    /\ pc = "pages"
    /\ Leave(<<>>, "empty_document")
    /\ UNCHANGED <<output, discarded>>

\* Lines 114-122: the next page of reader.pages and its metrics.
StartPage(boxes) ==
    /\ pc \in {"pages", "loop"}
    /\ page_index < MaxPages
    /\ \E mediabox \in boxes :
          page_metrics' = Put(page_metrics, page_index + 1,
                              Size(Num(mediabox[3] - mediabox[1]),
                                   Num(mediabox[4] - mediabox[2])))
    /\ page_index' = page_index + 1
    /\ pc' = "loop"
    /\ UNCHANGED <<field_definitions, widgets_by_field, field_types, todo, results,
                   fields, outcome, output, document, discarded>>

\* Lines 124-170: the next annotation of the page.
ReadAnnotation(annotations) ==
    /\ pc = "loop"
    /\ Len(document) < MaxAnnots
    /\ \E annotation \in annotations :
          /\ document' = Append(document, [page |-> page_index, annotation |-> annotation])
          /\ IF Skipped(annotation)
             THEN UNCHANGED <<field_types, widgets_by_field>>
             ELSE LET field_name == FieldName(annotation).str
                  IN /\ field_types' =
                           Put(field_types, field_name,
                               ResolveFieldType(annotation, field_definitions))
                     /\ widgets_by_field' =
                           Put(widgets_by_field, field_name,
                               Append(Get(widgets_by_field, field_name, <<>>),
                                      Widget(annotation, page_index, page_metrics)))
    /\ UNCHANGED <<pc, field_definitions, page_index, page_metrics, todo, results,
                   fields, outcome, output, discarded>>

\* Lines 172-178: the pages are exhausted; the names to report, sorted.
BeginReport ==
    /\ pc = "loop"
    /\ todo' = Sorted(AllFieldNames(field_definitions, widgets_by_field))
    /\ results' = <<>>
    /\ pc' = "report"
    /\ UNCHANGED <<field_definitions, page_index, page_metrics, widgets_by_field,
                   field_types, fields, outcome, output, document, discarded>>

\* Lines 178-225: one turn of the reporting loop.
EmitRecord ==
    /\ pc = "report"
    /\ todo # <<>>
    /\ results' = Append(results,
                         FieldRecord(Head(todo), field_definitions, widgets_by_field,
                                     field_types, page_metrics))
    /\ todo' = Tail(todo)
    /\ UNCHANGED <<pc, field_definitions, page_index, page_metrics, widgets_by_field,
                   field_types, fields, outcome, output, document, discarded>>

\* Line 227.
ReturnResults ==
    /\ pc = "report"
    /\ todo = <<>>
    /\ Leave(results, "ok")
    /\ UNCHANGED <<output, discarded>>

\* Lines 231-232: anything else raised between lines 97 and 227: by open, by
\* the reader on the catalog, a page or an annotation, by a print of the report.
Raise ==
    /\ \/ pc \in {"open", "get_fields", "pages", "loop"}
       \/ pc = "report" /\ todo # <<>>
    /\ Caught("parse_failure")

\* Lines 249-257: main writes what the call answered.
Write_NotAfterFailure ==
    /\ pc = "write"
    /\ \E written \in BOOLEAN :
          output' = IF outcome \in {"not_found", "parse_failure"}
                    THEN output
                    ELSE IF written
                    THEN [state |-> "written", content |-> fields]
                    ELSE [state |-> "failed"]
    /\ pc' = "done"
    /\ UNCHANGED <<field_definitions, page_index, page_metrics, widgets_by_field,
                   field_types, todo, results, fields, outcome, document, discarded>>

Write ==
    /\ pc = "write"
    /\ \E written \in BOOLEAN :
          output' = IF written
                    THEN [state |-> "written", content |-> fields]
                    ELSE [state |-> "failed"]
    /\ pc' = "done"
    /\ UNCHANGED <<field_definitions, page_index, page_metrics, widgets_by_field,
                   field_types, todo, results, fields, outcome, document, discarded>>

Step(catalogs, boxes, annotations) ==
    \/ Open
    \/ OpenNotFound
    \/ GetFields(catalogs)
    \/ NoPages
    \/ StartPage(boxes)
    \/ ReadAnnotation(annotations)
    \/ BeginReport
    \/ EmitRecord
    \/ ReturnResults
    \/ Raise
    \/ Write

NextNames == Step(NameCatalogs, NameBoxes, NameAnnotations)
NextGeometry == Step(GeometryCatalogs, GeometryBoxes, GeometryAnnotations)
NextTypes == Step(TypeCatalogs, TypeBoxes, TypeAnnotations)

SpecNames == Init /\ [][NextNames]_vars
SpecGeometry == Init /\ [][NextGeometry]_vars
SpecTypes == Init /\ [][NextTypes]_vars

----------------------------------------------------------------------------
(* What the claims speak of. *)

\* The reporting loop has emitted every record and the call has not yet returned.
ReportDone == pc = "report" /\ todo = <<>>

\* The pass over the pages or the report is under way.
InPass == pc \in {"loop", "report"}

Failed == outcome \in {"not_found", "parse_failure"}

\* The annotations read so far that resolve to the name n, in reading order.
Occurrences(n) == SelectSeq(document, LAMBDA e : FieldName(e.annotation) = Str(n))

\* The names the annotations read so far resolve to.
WidgetNames ==
    { FieldName(document[i].annotation).str :
        i \in { j \in 1..Len(document) : ~Skipped(document[j].annotation) } }

RecordNames == { results[k].name.str : k \in 1..Len(results) }

RecordOf(n) == results[CHOOSE k \in 1..Len(results) : results[k].name = Str(n)]

\* s sorts before t: at the first place they differ s has ended or holds the
\* smaller code point.
Precedes(s, t) ==
    \E i \in 1..(Len(t)) :
        /\ i <= Len(s) + 1
        /\ \A j \in 1..(i - 1) : s[j] = t[j]
        /\ \/ i = Len(s) + 1
           \/ Ord(s[i]) < Ord(t[i])

NullBox ==
    [top_left |-> Point(None, None), top_right |-> Point(None, None),
     bottom_left |-> Point(None, None), bottom_right |-> Point(None, None),
     width |-> None, height |-> None]

\* The top coordinate of an effective rect, None when the rect gives none.
TopOf(rect) ==
    IF rect # None /\ Len(rect.list) = 4 /\ IsNum(rect.list[4])
    THEN rect.list[4] ELSE None

----------------------------------------------------------------------------
(* C1.  When every record has been emitted, the records' names are exactly  *)
(* the union of the catalog's normalised keys and the widget map's keys,    *)
(* each once, in strictly ascending order.                                  *)
C1_OneRecordPerNameAscending ==
    ReportDone =>
        /\ RecordNames = DOMAIN field_definitions \cup DOMAIN widgets_by_field
        /\ DOMAIN widgets_by_field = WidgetNames
        /\ \A j, k \in 1..Len(results) :
              j < k => Precedes(results[j].name.str, results[k].name.str)

C1_Witness ==
    /\ ReportDone
    /\ Len(results) >= 3
    /\ DOMAIN field_definitions \ DOMAIN widgets_by_field # {}
    /\ DOMAIN widgets_by_field \ DOMAIN field_definitions # {}
    /\ DOMAIN widgets_by_field \cap DOMAIN field_definitions # {}

(* C2.  The representative of a name is, all through the pass, the widget   *)
(* of the first annotation read that resolves to the name, and the emitted  *)
(* record's page, bounding_box, position and size are that widget's.        *)
C2_FirstWidgetGivesGeometry ==
    InPass =>
        /\ \A n \in DOMAIN widgets_by_field :
              LET first == Occurrences(n)[1]
              IN Primary(widgets_by_field[n])
                    = Widget(first.annotation, first.page, page_metrics)
        /\ \A n \in RecordNames \cap WidgetNames :
              LET first == Occurrences(n)[1]
                  widget == Widget(first.annotation, first.page, page_metrics)
                  record == RecordOf(n)
              IN /\ record.page = PyInt(first.page)
                 /\ record.bounding_box = _round_box_dict(widget.boundingBox)
                 /\ record.position = _round_point(widget.position)
                 /\ record.size = _round_size(widget.size)

C2_Witness ==
    /\ ReportDone
    /\ \E n \in RecordNames :
          /\ Len(Occurrences(n)) >= 2
          /\ Occurrences(n)[1].page # Occurrences(n)[2].page
          /\ EffectiveRect(Occurrences(n)[1].annotation) = OtherRect
          /\ EffectiveRect(Occurrences(n)[2].annotation) = PlainRect
          /\ RecordOf(n).page = PyInt(1)
          /\ RecordOf(n).size = Size(Num(Pt(40)), Num(Pt(20)))

(* C3, as claimed.  A field with no widget, or whose first widget's         *)
(* effective rect is absent or of wrong arity, has a record whose           *)
(* bounding_box, position and size are null.                                *)
C3_Original ==
    ReportDone =>
        \A n \in DOMAIN field_definitions \cup WidgetNames :
            LET rect == IF n \in WidgetNames
                        THEN EffectiveRect(Occurrences(n)[1].annotation) ELSE None
            IN (rect = None \/ Len(rect.list) # 4) =>
                  /\ n \in RecordNames
                  /\ RecordOf(n).bounding_box = None
                  /\ RecordOf(n).position = None
                  /\ RecordOf(n).size = None

(* C3, amended.  Such a field's record is emitted.  With no widget, or an   *)
(* absent or empty effective rect, bounding_box, position and size are      *)
(* null; with a non-empty rect of wrong arity they are the structures whose *)
(* every coordinate, width and height is null.                              *)
C3_NullGeometry ==
    ReportDone =>
        \A n \in DOMAIN field_definitions \cup WidgetNames :
            LET rect == IF n \in WidgetNames
                        THEN EffectiveRect(Occurrences(n)[1].annotation) ELSE None
            IN /\ n \in RecordNames
               /\ (rect = None \/ rect.list = <<>>) =>
                     /\ RecordOf(n).bounding_box = None
                     /\ RecordOf(n).position = None
                     /\ RecordOf(n).size = None
               /\ (rect # None /\ rect.list # <<>> /\ Len(rect.list) # 4) =>
                     /\ RecordOf(n).bounding_box = NullBox
                     /\ RecordOf(n).position = Point(None, None)
                     /\ RecordOf(n).size = Size(None, None)

C3_Witness ==
    /\ ReportDone
    /\ \E n \in WidgetNames :
          /\ EffectiveRect(Occurrences(n)[1].annotation) = ShortRect
          /\ RecordOf(n).bounding_box = NullBox
    /\ \E n \in WidgetNames :
          /\ EffectiveRect(Occurrences(n)[1].annotation) = None
          /\ RecordOf(n).bounding_box = None
    /\ \E n \in DOMAIN field_definitions \ WidgetNames :
          RecordOf(n).bounding_box = None

(* C4, as claimed.  A field the catalog declares with a field-type code and *)
(* that no annotation resolves to is emitted with the lookup-table image of *)
(* that code as its field_type.                                             *)
C4_Original ==
    ReportDone =>
        \A n \in DOMAIN field_definitions \ WidgetNames :
            field_definitions[n].FT # None =>
                RecordOf(n).field_type
                    = MappedType(_normalise_name(field_definitions[n].FT))

(* C5.  Once the call has ended in a handled failure, main holds the empty  *)
(* list and goes on: nothing accumulated before the failure is returned.    *)
C5_FailureReturnsEmptyList ==
    Failed => fields = <<>> /\ pc \in {"write", "done"}

C5_Witness ==
    /\ outcome = "parse_failure"
    /\ discarded.widgets >= 2
    /\ discarded.records >= 1
    /\ fields = <<>>

C7_Original ==
    InPass =>
        \A n \in DOMAIN widgets_by_field :
            \A k \in 1..Len(widgets_by_field[n]) :
                LET widget == widgets_by_field[n][k]
                    read == Occurrences(n)[k]
                    top == TopOf(EffectiveRect(read.annotation))
                    page_height == page_metrics[read.page].height
                IN IF top # None /\ page_height # None
                   THEN /\ widget.flutterConfig # None
                        /\ widget.flutterConfig.y = Num(page_height.num - top.num)
                   ELSE \/ widget.flutterConfig = None
                        \/ widget.flutterConfig.y = None

(* C7, amended.  Every widget's flutterConfig y is the page height minus    *)
(* the top of the widget's effective rect, rounded to 3 decimals, when both *)
(* are known, else null.                                                    *)
C7_FlutterYFromTopRounded ==
    InPass =>
        \A n \in DOMAIN widgets_by_field :
            \A k \in 1..Len(widgets_by_field[n]) :
                LET widget == widgets_by_field[n][k]
                    read == Occurrences(n)[k]
                    top == TopOf(EffectiveRect(read.annotation))
                    page_height == page_metrics[read.page].height
                    exact == page_height.num - top.num
                IN IF top # None /\ page_height # None
                   THEN /\ widget.flutterConfig # None
                        /\ widget.flutterConfig.y \in {Num(exact - 1), Num(exact), Num(exact + 1)}
                        /\ widget.flutterConfig.y.num % 3 = 0
                   ELSE \/ widget.flutterConfig = None
                        \/ widget.flutterConfig.y = None

C7_Witness ==
    /\ InPass
    /\ \E n \in DOMAIN widgets_by_field :
          \E j, k \in 1..Len(widgets_by_field[n]) :
              /\ EffectiveRect(Occurrences(n)[j].annotation) = NoTopRect
              /\ widgets_by_field[n][j].flutterConfig # None
              /\ widgets_by_field[n][j].flutterConfig.y = None
              /\ EffectiveRect(Occurrences(n)[k].annotation) = OtherRect
              /\ widgets_by_field[n][k].page = PyInt(2)
              /\ page_metrics[2].height = Num(Pt(792))
              /\ page_metrics[1].height = Num(Pt(600) - 1)
              /\ widgets_by_field[n][k].flutterConfig.y = Num(Pt(732) - 3)

(* C8, as claimed.  A field one of whose widgets resolved a field-type code *)
(* is emitted with a field_type that is not null.                           *)
C8_Original ==
    ReportDone =>
        \A n \in RecordNames \cap WidgetNames :
            (\E i \in 1..Len(Occurrences(n)) :
                ResolveFieldType(Occurrences(n)[i].annotation, field_definitions) # None)
            => RecordOf(n).field_type # None

(* C9, as claimed.  The field-type code an annotation resolves to is its    *)
(* own code, else its parent's, else the catalog's for the name.            *)
C9_Original ==
    (pc = "loop" /\ document # <<>> /\ ~Skipped(document[Len(document)].annotation)) =>
        LET annotation == document[Len(document)].annotation
            parent == annotation.Parent
            field_name == FieldName(annotation).str
            own == Or(annotation.FT, IF parent # None THEN parent.FT ELSE None)
            catalog == IF field_name \in DOMAIN field_definitions
                       THEN field_definitions[field_name].FT ELSE None
        IN field_types[field_name] = _normalise_name(Or(own, catalog))

(* C10, as claimed.  No annotation introduces the empty name: the widget    *)
(* map has no empty key and no record has an empty name.                    *)
C10_Original ==
    /\ <<>> \notin DOMAIN widgets_by_field
    /\ <<>> \notin RecordNames

====
